---- MODULE Spec2Model ----
(***************************************************************************)
(* State-machine model of the solar-system websocket server                *)
(* (src/src/main.rs, src/src/ship.rs).                                     *)
(*                                                                         *)
(* Threads: the ws event loop ("main": factory, on_open, on_message,       *)
(* on_close, one handler at a time), the simulation clock thread, and one  *)
(* broadcast thread per opened connection.  Shared state: the              *)
(* Arc<Mutex<SolarSystem>> (world lock) and one Arc<Mutex<TheShip>> per    *)
(* ship (ship lock).  A std Mutex is poisoned when its guard is dropped by *)
(* a panicking thread; every lock().unwrap() on a poisoned mutex panics.   *)
(*                                                                         *)
(* Numbers: every f64 of the source is held in fixed point, as the integer *)
(* nearest to 1000 times its value (seconds -> milliseconds, radians ->    *)
(* milliradians, 450.0 -> 450000).  fmul/fdiv are the fixed-point product  *)
(* and quotient; sin and cos are computed (Bhaskara's rational             *)
(* approximation), not assumed.                                            *)
(***************************************************************************)
EXTENDS Integers, Sequences, FiniteSets, TLC

(* ------------------------------------------------------------------ *)
(* Bounds of the model                                                  *)
(* ------------------------------------------------------------------ *)
MaxConns == 2
MaxTicks == 1
MaxMsgs == 1
MaxBatches == 2
MaxNow == 1

(* ------------------------------------------------------------------ *)
(* Fixed-point arithmetic                                               *)
(* ------------------------------------------------------------------ *)
Abs(a) == IF a < 0 THEN -a ELSE a

\* integer quotient rounded toward zero (so that -x / y = -(x / y), as for floats)
quot(a, b) == IF (a < 0) = (b < 0) THEN Abs(a) \div Abs(b) ELSE -(Abs(a) \div Abs(b))

fmul(a, b) == quot(a * b, 1000)

fdiv(a, b) == quot(a * 1000, b)

\* the integer square root of n, by bisection of lo..hi (mid is bound at each step)
RECURSIVE isqrt_between(_, _, _)
isqrt_between(n, lo, hi) ==
    IF lo >= hi THEN lo
    ELSE CHOOSE r \in { IF mid * mid <= n THEN isqrt_between(n, mid, hi)
                        ELSE isqrt_between(n, lo, mid - 1) :
                        mid \in { (lo + hi + 1) \div 2 } } : TRUE

\* f64::sqrt in fixed point: 1000 * sqrt(a / 1000) = sqrt(1000 * a)
fsqrt(a) == CHOOSE r \in { isqrt_between(n, 0, 40000) : n \in { a * 1000 } } : TRUE

PI == 3142
FRAC_PI_2 == 1571

\* sin on [0, PI]: 16 x (PI - x) / (5 PI^2 - 4 x (PI - x))
sin_half_turn(x) == (16 * x * (PI - x)) \div ((5 * PI * PI - 4 * x * (PI - x)) \div 1000)

fsin(a) ==
    LET x == a % (2 * PI)
    IN IF x <= PI THEN sin_half_turn(x) ELSE -sin_half_turn(x - PI)

fcos(a) == fsin(a + FRAC_PI_2)

(* ------------------------------------------------------------------ *)
(* Planet (main.rs 18-49)                                               *)
(* ------------------------------------------------------------------ *)
Planet_new(name, distance_from_sun, orbital_period) ==
    [ name |-> name,
      distance_from_sun |-> distance_from_sun,
      angle |-> 0,
      angular_velocity |-> fdiv(2 * PI, orbital_period) ]

update_position(p, delta_time) ==
    LET a == p.angle + fmul(p.angular_velocity, delta_time)
    IN [p EXCEPT !.angle = IF a > 2 * PI THEN a - 2 * PI ELSE a]

position(p) ==
    << fmul(p.distance_from_sun, fcos(p.angle)),
       fmul(p.distance_from_sun, fsin(p.angle)) >>

(* ------------------------------------------------------------------ *)
(* TheShip (ship.rs)                                                    *)
(* ------------------------------------------------------------------ *)
TheShip_new(uuid) ==
    [ uuid |-> uuid,
      speed |-> <<0, 0, 0>>,
      position |-> <<0, 0, 450000>>,
      direction |-> <<1000, 0, 0>>,
      engines |-> [ power |-> 1000, front |-> FALSE, back |-> FALSE,
                    left |-> FALSE, right |-> FALSE, up |-> FALSE, down |-> FALSE ],
      rotation_engines |-> [ power |-> 500, left |-> FALSE, right |-> FALSE,
                             up |-> FALSE, down |-> FALSE ],
      angle |-> -FRAC_PI_2,
      pitch |-> 0 ]

to_json(s) ==
    [ uuid |-> s.uuid,
      speed |-> s.speed,
      position |-> s.position,
      direction |-> s.direction,
      engines |-> s.engines,
      rotation_engines |-> s.rotation_engines ]

\* v + sign * (w * delta_time * power), component-wise
thrust(v, w, sign, delta_time, power) ==
    [i \in 1..3 |-> v[i] + sign * fmul(fmul(w[i], delta_time), power)]

\* ship.rs 198-203: the direction divided by its norm
normalized(d) ==
    CHOOSE u \in { << fdiv(v[1], norm), fdiv(v[2], norm), fdiv(v[3], norm) >> :
                       v \in {d},
                       norm \in { fsqrt(fmul(d[1], d[1]) + fmul(d[2], d[2])
                                        + fmul(d[3], d[3])) } } : TRUE

rotate(s, delta_time) ==
    LET rotation_speed == fmul(delta_time, s.rotation_engines.power)
        a1 == IF s.rotation_engines.left THEN s.angle + rotation_speed ELSE s.angle
        angle == IF s.rotation_engines.right THEN a1 - rotation_speed ELSE a1
        p1 == IF s.rotation_engines.up THEN s.pitch - rotation_speed ELSE s.pitch
        pitch == IF s.rotation_engines.down THEN p1 + rotation_speed ELSE p1
        d == << fmul(fcos(angle), fcos(pitch)),
                fsin(pitch),
                fmul(fsin(angle), fcos(pitch)) >>
    IN [s EXCEPT !.angle = angle,
                 !.pitch = pitch,
                 !.direction = normalized(d)]

accelerate(s, delta_time) ==
    LET dir == s.direction
        pw == s.engines.power
        v1 == IF s.engines.front THEN thrust(s.speed, dir, -1, delta_time, pw) ELSE s.speed
        v2 == IF s.engines.back THEN thrust(v1, dir, 1, delta_time, pw) ELSE v1
        vertical_local == << -fmul(dir[1], fsin(s.pitch)),
                             fcos(s.pitch),
                             -fmul(dir[3], fsin(s.pitch)) >>
        v3 == IF s.engines.up THEN thrust(v2, vertical_local, -1, delta_time, pw) ELSE v2
        v4 == IF s.engines.down THEN thrust(v3, vertical_local, 1, delta_time, pw) ELSE v3
        lateral_local == << -dir[3], 0, dir[1] >>
        v5 == IF s.engines.left THEN thrust(v4, lateral_local, 1, delta_time, pw) ELSE v4
        v6 == IF s.engines.right THEN thrust(v5, lateral_local, -1, delta_time, pw) ELSE v5
    IN [s EXCEPT !.speed = v6]

\* ship.rs 98-100: position += speed * delta_time
integrate(s, delta_time) ==
    [s EXCEPT !.position =
        [i \in 1..3 |-> s.position[i] + fmul(s.speed[i], delta_time)]]

\* mutant of TheShip_update: the speed is updated before the direction
TheShip_update_accelerate_first(s, delta_time) ==
    CHOOSE u \in { integrate(r, delta_time) :
                       r \in { rotate(a, delta_time) :
                                  a \in { accelerate(s, delta_time) } } } : TRUE

\* ship.rs 90-100: rotate, then accelerate, then the position; the result of each
\* step is bound (r, a) before the next one reads it
TheShip_update(s, delta_time) ==
    CHOOSE u \in { integrate(a, delta_time) :
                       a \in { accelerate(r, delta_time) :
                                  r \in { rotate(s, delta_time) } } } : TRUE

(* ------------------------------------------------------------------ *)
(* serde_json::Value, Option, and the inbound text frames               *)
(* ------------------------------------------------------------------ *)
None == [some |-> FALSE]
Some(v) == [some |-> TRUE, val |-> v]

JBool(b) == [t |-> "bool", b |-> b]
JStr(s) == [t |-> "str", s |-> s]
JObj(f) == [t |-> "obj", f |-> f]

\* Value::get(&str): Some only on an object that has the key
get(v, key) == IF v.t = "obj" /\ key \in DOMAIN v.f THEN Some(v.f[key]) ELSE None

\* Value::as_bool
as_bool(v) == IF v.t = "bool" THEN Some(v.b) ELSE None

EnginesOn ==
    JObj([front |-> JBool(TRUE), back |-> JBool(FALSE), left |-> JBool(FALSE),
          right |-> JBool(FALSE), up |-> JBool(FALSE), down |-> JBool(TRUE)])

RotationOn ==
    JObj([left |-> JBool(TRUE), right |-> JBool(FALSE), up |-> JBool(TRUE),
          down |-> JBool(FALSE)])

\* serde_json::from_str on the text frames the model draws from
from_str(text) ==
    CASE text = "{\"engines\":{\"front\":true,\"back\":false,\"left\":false,\"right\":false,\"up\":false,\"down\":true}}" ->
           Some(JObj([engines |-> EnginesOn]))
      [] text = "{\"data\":{\"chat\":\"hi\"}}" ->
           Some(JObj([data |-> JObj([chat |-> JStr("hi")])]))
      [] text = "{\"data\":{\"engines\":{\"front\":true,\"back\":false,\"left\":false,\"right\":false,\"up\":false,\"down\":true}}}" ->
           Some(JObj([data |-> JObj([engines |-> EnginesOn])]))
      [] text = "{\"data\":{\"rotation\":{\"left\":true,\"right\":false,\"up\":true,\"down\":false}}}" ->
           Some(JObj([data |-> JObj([rotation |-> RotationOn])]))
      [] text = "{\"data\":{\"rotation\":{\"left\":true,\"up\":true,\"down\":false}}}" ->
           Some(JObj([data |-> JObj([rotation |->
                JObj([left |-> JBool(TRUE), up |-> JBool(TRUE), down |-> JBool(FALSE)])])]))
      [] text = "{\"data\":{\"engines\":{\"front\":true,\"back\":\"no\",\"left\":false,\"right\":false,\"up\":false,\"down\":true}}}" ->
           Some(JObj([data |-> JObj([engines |->
                JObj([front |-> JBool(TRUE), back |-> JStr("no"), left |-> JBool(FALSE),
                      right |-> JBool(FALSE), up |-> JBool(FALSE), down |-> JBool(TRUE)])])]))
      [] text = "{\"data\":{\"engines\":{\"front\":true,\"back\":false,\"left\":false,\"right\":false,\"up\":false,\"down\":true},\"rotation\":{\"left\":true}}}" ->
           Some(JObj([data |-> JObj([engines |-> EnginesOn,
                                     rotation |-> JObj([left |-> JBool(TRUE)])])]))
      [] OTHER -> None

Texts ==
    { "engines on",
      "{\"engines\":{\"front\":true,\"back\":false,\"left\":false,\"right\":false,\"up\":false,\"down\":true}}",
      "{\"data\":{\"chat\":\"hi\"}}",
      "{\"data\":{\"engines\":{\"front\":true,\"back\":false,\"left\":false,\"right\":false,\"up\":false,\"down\":true}}}",
      "{\"data\":{\"rotation\":{\"left\":true,\"right\":false,\"up\":true,\"down\":false}}}",
      "{\"data\":{\"rotation\":{\"left\":true,\"up\":true,\"down\":false}}}",
      "{\"data\":{\"engines\":{\"front\":true,\"back\":\"no\",\"left\":false,\"right\":false,\"up\":false,\"down\":true}}}",
      "{\"data\":{\"engines\":{\"front\":true,\"back\":false,\"left\":false,\"right\":false,\"up\":false,\"down\":true},\"rotation\":{\"left\":true}}}" }

\* mutant of msg_data: a frame without "data" is read as if it were the data
msg_data_or_root(text) ==
    LET r == from_str(text)
    IN IF r.some
       THEN (IF get(r.val, "data").some THEN get(r.val, "data") ELSE r)
       ELSE None

\* main.rs 157-158: the value under "data", when the text is JSON and has one
msg_data(text) ==
    LET r == from_str(text)
    IN IF r.some THEN get(r.val, "data") ELSE None

\* main.rs 159 / 171: the sub-object under `key` of data
msg_group(text, key) ==
    LET d == msg_data(text)
    IN IF d.some THEN get(d.val, key) ELSE None

EngineFields == <<"front", "back", "left", "right", "up", "down">>
RotationFields == <<"left", "right", "up", "down">>

\* main.rs 163-168 / 175-178: the right-hand side of one assignment,
\* json.get(f).unwrap().as_bool().unwrap(); None stands for the panic of either unwrap
flag_value(json, f) ==
    LET v == get(json, f)
    IN IF v.some THEN as_bool(v.val) ELSE None

(* ------------------------------------------------------------------ *)
(* State                                                                *)
(* ------------------------------------------------------------------ *)
VARIABLES
    solar_system,  \* the SolarSystem: planets (Vec) and ships (HashMap uuid -> Arc)
    ship_arcs,     \* the TheShip behind each Arc<Mutex<TheShip>>, by the ship's uuid
    world_mutex,   \* Mutex<SolarSystem>: [owner, poisoned]
    ship_mutex,    \* Mutex<TheShip> of each Arc: [owner, poisoned]
    next_uuid,     \* Uuid::new_v4(): the next fresh value
    conn,          \* connection slot -> "none" | "connecting" | "open" | "closed"
    server,        \* the Server (handler) of each connection: [ship_uuid]
    main,          \* the ws event-loop thread: [pc, c, text, ship, n]
    clock,         \* the simulation clock thread: [pc, delta_time, todo]
    bcast,         \* the broadcast thread of each connection and its locals
    ticks,         \* completed calls of SolarSystem::update (history)
    msgs,          \* text frames handed to on_message (history)
    running,       \* FALSE once the process has exited
    kafka,         \* the telemetry task: [pc, positions, timestamp, records, result]
    now,           \* SystemTime::now(), in seconds since the first batch began
    batches        \* iterations of the telemetry loop that have ended (history)

vars == << solar_system, ship_arcs, world_mutex, ship_mutex, next_uuid, conn, server,
           main, clock, bcast, ticks, msgs, running, kafka, now, batches >>

\* the state of the telemetry task and of the wall clock it reads
telemetry == << kafka, now, batches >>

Conns == 1..MaxConns

\* elapsed time measured by the clock between two iterations (milliseconds)
DeltaTimes == {33}

\* thread identities, as mutex owners
NoOwner == <<>>
MainThread == <<"main">>
ClockThread == <<"clock">>
BcastThread(c) == <<"bcast", c>>
KafkaTask == <<"kafka">>

(* ------------------------------------------------------------------ *)
(* std::sync::Mutex                                                     *)
(* ------------------------------------------------------------------ *)
NewMutex == [owner |-> NoOwner, poisoned |-> FALSE]

\* mutant of IsFree: lock() returns whether or not another guard is alive
IsFree_no_exclusion(m) == TRUE

\* lock() returns only when no guard of the mutex is alive
IsFree(m) == m.owner = NoOwner

\* mutant of Locked: the guard is returned and the mutex is not held
Locked_not_held(m, t) == m

\* lock() returned the guard to thread t
Locked(m, t) == [m EXCEPT !.owner = t]

\* mutant of Unlocked: the guard outlives its scope
Unlocked_guard_kept(m) == m

\* the guard is dropped at the end of its scope
Unlocked(m) == [m EXCEPT !.owner = NoOwner]

\* the guard is dropped while its thread unwinds from a panic
PoisonedBy(m) == [owner |-> NoOwner, poisoned |-> TRUE]

(* ------------------------------------------------------------------ *)
(* SolarSystem (main.rs 51-96)                                          *)
(* ------------------------------------------------------------------ *)
SolarSystem_new ==
    [ planets |-> << Planet_new("Mercury", 50000, fmul(240, 60000)),
                     Planet_new("Venus", 70000, fmul(620, 60000)),
                     Planet_new("Earth", 90000, fmul(1000, 60000)),
                     Planet_new("Mars", 110000, fmul(1880, 60000)),
                     Planet_new("Jupiter", 150000, fmul(11860, 60000)) >>,
      ships |-> << >> ]

\* HashMap::insert(uuid, ship): the key is the uuid read from the ship itself
add_ship(ss, ship) ==
    LET uuid == ship_arcs[ship].uuid
    IN [ss EXCEPT !.ships =
            [k \in DOMAIN ss.ships \cup {uuid} |-> IF k = uuid THEN ship ELSE ss.ships[k]]]

\* the map with the Arc `ship` under `uuid`
add_ship_at(ss, uuid, ship) ==
    [ss EXCEPT !.ships =
        [k \in DOMAIN ss.ships \cup {uuid} |-> IF k = uuid THEN ship ELSE ss.ships[k]]]

\* mutants of remove_ship: the entry is left in place / every entry is dropped
remove_ship_keeps(ss, uuid) == ss

remove_ship_clears(ss, uuid) == [ss EXCEPT !.ships = << >>]

\* HashMap::remove(&uuid)
remove_ship(ss, uuid) ==
    [ss EXCEPT !.ships = [k \in DOMAIN ss.ships \ {uuid} |-> ss.ships[k]]]

positions(ss) ==
    [i \in 1..Len(ss.planets) |-> << ss.planets[i].name, position(ss.planets[i]) >>]

\* main.rs 76: the ships the second loop of SolarSystem::update goes through
ships_to_update(ss) == DOMAIN ss.ships

\* the first loop of SolarSystem::update
update_planets(ss, delta_time) ==
    [ss EXCEPT !.planets =
        [i \in 1..Len(ss.planets) |-> update_position(ss.planets[i], delta_time)]]

(* ------------------------------------------------------------------ *)
(* Initial state: main() before ws::listen accepts anything             *)
(* ------------------------------------------------------------------ *)
\* the task between two iterations; `result` is what the last call of
\* send_planet_positions returned, `records` what the current call has published
KafkaIdle == [pc |-> "interval", positions |-> << >>, timestamp |-> 0, records |-> << >>,
              result |-> "none"]

NoLocals == [positions |-> << >>, ships |-> {}, ship_info |-> None,
             positions_ticks |-> 0, ships_ticks |-> 0]

Init ==
    /\ solar_system = SolarSystem_new
    /\ ship_arcs = << >>
    /\ world_mutex = NewMutex
    /\ ship_mutex = << >>
    /\ next_uuid = 1
    /\ conn = [c \in Conns |-> "none"]
    /\ server = [c \in Conns |-> [ship_uuid |-> 0]]
    /\ main = [pc |-> "idle", c |-> 0, text |-> "", ship |-> 0, n |-> 0]
    /\ clock = [pc |-> "sleep", delta_time |-> 0, todo |-> {}]
    /\ bcast = [c \in Conns |-> [pc |-> "none", ship_clone |-> 0, loc |-> NoLocals]]
    /\ ticks = 0
    /\ msgs = 0
    /\ running = TRUE
    /\ kafka = KafkaIdle
    /\ now = 0
    /\ batches = 0

(* ------------------------------------------------------------------ *)
(* The ws event loop: factory, on_open, on_message, on_close            *)
(* (one handler at a time; conn[c] is "open" from the return of on_open *)
(* to the return of on_close)                                           *)
(* ------------------------------------------------------------------ *)
\* pc: where the thread is; c, text: the connection and the frame of the handler it
\* runs; ship: the Arc the handler holds; n: the assignments on_message has done
MainIdle == [pc |-> "idle", c |-> 0, text |-> "", ship |-> 0, n |-> 0]
MainAt(pc, c, text, ship) == [pc |-> pc, c |-> c, text |-> text, ship |-> ship, n |-> 0]

\* self.solar_system.lock().unwrap() on the event-loop thread, which then goes on
\* at `pc`; on a poisoned mutex the unwrap panics
MainLockWorld(pc, c, text, ship) ==
    /\ IsFree(world_mutex)
    /\ IF world_mutex.poisoned
       THEN /\ main' = MainAt("panicked", c, text, ship)
            /\ UNCHANGED world_mutex
       ELSE /\ main' = MainAt(pc, c, text, ship)
            /\ world_mutex' = Locked(world_mutex, MainThread)

\* main.rs 293-298: the factory closure builds the Server of an accepted connection
Accept(c) ==
    /\ running /\ main.pc = "idle"
    /\ conn[c] = "none"
    /\ \A d \in Conns : d < c => conn[d] # "none"
    /\ conn' = [conn EXCEPT ![c] = "connecting"]
    /\ server' = [server EXCEPT ![c].ship_uuid = next_uuid]
    /\ next_uuid' = next_uuid + 1
    /\ UNCHANGED << solar_system, ship_arcs, world_mutex, ship_mutex, main, clock,
                    bcast, ticks, msgs, running >>
    /\ UNCHANGED telemetry

\* mutant of on_open_ship_uuid: self.ship_uuid keeps the uuid the factory drew
on_open_keeps_factory_uuid(c, ship_uuid) == server[c].ship_uuid

\* the value on_open stores in self.ship_uuid (main.rs 114)
on_open_ship_uuid(c, ship_uuid) == ship_uuid

\* main.rs 106-117: the new ship, self.ship_uuid, and the world lock
OnOpenLock(c) ==
    /\ running /\ main.pc = "idle"
    /\ conn[c] = "connecting"
    /\ ship_arcs' = (next_uuid :> TheShip_new(next_uuid)) @@ ship_arcs
    /\ ship_mutex' = (next_uuid :> NewMutex) @@ ship_mutex
    /\ server' = [server EXCEPT ![c].ship_uuid = on_open_ship_uuid(c, next_uuid)]
    /\ next_uuid' = next_uuid + 1
    /\ MainLockWorld("on_open", c, "", next_uuid)
    /\ UNCHANGED << solar_system, conn, clock, bcast, ticks, msgs, running >>
    /\ UNCHANGED telemetry

\* main.rs 118-152: add_ship under the lock, then the broadcast thread is spawned
OnOpenAdd ==
    /\ running /\ main.pc = "on_open"
    /\ IsFree(ship_mutex[main.ship])
    /\ solar_system' = add_ship(solar_system, main.ship)
    /\ world_mutex' = Unlocked(world_mutex)
    /\ bcast' = [bcast EXCEPT ![main.c] =
                    [pc |-> "positions_lock", ship_clone |-> main.ship, loc |-> NoLocals]]
    /\ conn' = [conn EXCEPT ![main.c] = "open"]
    /\ main' = MainIdle
    /\ UNCHANGED << ship_arcs, ship_mutex, next_uuid, server, clock, ticks, msgs,
                    running >>
    /\ UNCHANGED telemetry

\* main.rs 155-160, 171-172: a text frame arrives; the handler parses it and, when
\* data has an "engines" (else a "rotation") key, locks the world
OnMessage(c, text) ==
    /\ running /\ main.pc = "idle"
    /\ msgs < MaxMsgs
    /\ msgs' = msgs + 1
    /\ IF msg_group(text, "engines").some
       THEN MainLockWorld("engines", c, text, 0)
       ELSE IF msg_group(text, "rotation").some
            THEN MainLockWorld("rotation", c, text, 0)
            ELSE UNCHANGED << main, world_mutex >>
    /\ UNCHANGED << solar_system, ship_arcs, ship_mutex, next_uuid, conn, server,
                    clock, bcast, ticks, running >>
    /\ UNCHANGED telemetry

\* mutant of with_flags: the group is rebuilt from the frame alone, its power lost
with_flags_power_lost(s, field, rec) == [s EXCEPT ![field] = [rec EXCEPT !.power = 0]]

\* the ship with the flags of group `field` replaced by `rec`
with_flags(s, field, rec) == [s EXCEPT ![field] = rec]

\* main.rs 161-162 / 173-174: under the world lock, ships.get(&self.ship_uuid).unwrap()
\* and ship.lock().unwrap(); the handler goes on at `pc`.  A panic drops the world
\* guard, which poisons the world mutex.
MessageShipLock(pc) ==
    LET uuid == server[main.c].ship_uuid
    IN IF uuid \notin DOMAIN solar_system.ships
       THEN /\ world_mutex' = PoisonedBy(world_mutex)
            /\ main' = [main EXCEPT !.pc = "panicked"]
            /\ UNCHANGED ship_mutex
       ELSE LET ship == solar_system.ships[uuid]
            IN /\ IsFree(ship_mutex[ship])
               /\ IF ship_mutex[ship].poisoned
                  THEN /\ world_mutex' = PoisonedBy(world_mutex)
                       /\ main' = [main EXCEPT !.pc = "panicked"]
                       /\ UNCHANGED ship_mutex
                  ELSE /\ ship_mutex' = [ship_mutex EXCEPT ![ship] = Locked(@, MainThread)]
                       /\ main' = [main EXCEPT !.pc = pc, !.ship = ship, !.n = 0]
                       /\ UNCHANGED world_mutex

\* main.rs 163-168 / 175-178: the next assignment of the block, to the flag
\* fields[n + 1] of group `field` from the sub-object under `key`; after the last
\* one the block ends, both guards are dropped and the handler goes on at `next`.
\* An unwrap that fails panics with both guards alive, which poisons both mutexes.
MessageAssign(key, field, fields, next) ==
    LET json == msg_group(main.text, key).val
        f == fields[main.n + 1]
        b == flag_value(json, f)
    IN IF ~b.some
       THEN /\ world_mutex' = PoisonedBy(world_mutex)
            /\ ship_mutex' = [ship_mutex EXCEPT ![main.ship] = PoisonedBy(@)]
            /\ main' = [main EXCEPT !.pc = "panicked"]
            /\ UNCHANGED ship_arcs
       ELSE /\ ship_arcs' = [ship_arcs EXCEPT ![main.ship] =
                                 with_flags(@, field, [@[field] EXCEPT ![f] = b.val])]
            /\ IF main.n + 1 = Len(fields)
               THEN /\ world_mutex' = Unlocked(world_mutex)
                    /\ ship_mutex' = [ship_mutex EXCEPT ![main.ship] = Unlocked(@)]
                    /\ main' = next
               ELSE /\ main' = [main EXCEPT !.n = @ + 1]
                    /\ UNCHANGED << world_mutex, ship_mutex >>

\* main.rs 161-162
OnMessageEngines ==
    /\ running /\ main.pc = "engines"
    /\ MessageShipLock("engines_assign")
    /\ UNCHANGED << solar_system, ship_arcs, next_uuid, conn, server, clock, bcast, ticks,
                    msgs, running >>
    /\ UNCHANGED telemetry

\* main.rs 163-169
OnMessageEnginesAssign ==
    /\ running /\ main.pc = "engines_assign"
    /\ MessageAssign("engines", "engines", EngineFields,
                     IF msg_group(main.text, "rotation").some
                     THEN [main EXCEPT !.pc = "rotation_lock", !.ship = 0, !.n = 0]
                     ELSE MainIdle)
    /\ UNCHANGED << solar_system, next_uuid, conn, server, clock, bcast, ticks, msgs,
                    running >>
    /\ UNCHANGED telemetry

\* main.rs 171-172
OnMessageRotationLock ==
    /\ running /\ main.pc = "rotation_lock"
    /\ MainLockWorld("rotation", main.c, main.text, 0)
    /\ UNCHANGED << solar_system, ship_arcs, ship_mutex, next_uuid, conn, server,
                    clock, bcast, ticks, msgs, running >>
    /\ UNCHANGED telemetry

\* main.rs 173-174
OnMessageRotation ==
    /\ running /\ main.pc = "rotation"
    /\ MessageShipLock("rotation_assign")
    /\ UNCHANGED << solar_system, ship_arcs, next_uuid, conn, server, clock, bcast, ticks,
                    msgs, running >>
    /\ UNCHANGED telemetry

\* main.rs 175-179
OnMessageRotationAssign ==
    /\ running /\ main.pc = "rotation_assign"
    /\ MessageAssign("rotation", "rotation_engines", RotationFields, MainIdle)
    /\ UNCHANGED << solar_system, next_uuid, conn, server, clock, bcast, ticks, msgs,
                    running >>
    /\ UNCHANGED telemetry

\* main.rs 185-188
OnCloseLock(c) ==
    /\ running /\ main.pc = "idle"
    /\ MainLockWorld("on_close", c, "", 0)
    /\ UNCHANGED << solar_system, ship_arcs, ship_mutex, next_uuid, conn, server,
                    clock, bcast, ticks, msgs, running >>
    /\ UNCHANGED telemetry

\* main.rs 189-192
OnCloseRemove ==
    /\ running /\ main.pc = "on_close"
    /\ solar_system' = remove_ship(solar_system, server[main.c].ship_uuid)
    /\ world_mutex' = Unlocked(world_mutex)
    /\ conn' = [conn EXCEPT ![main.c] = "closed"]
    /\ main' = MainIdle
    /\ UNCHANGED << ship_arcs, ship_mutex, next_uuid, server, clock, bcast, ticks,
                    msgs, running >>
    /\ UNCHANGED telemetry

\* a panic on the thread that runs main() unwinds out of ws::listen and main: the
\* process exits, and every other thread ends with it
ProcessExit ==
    /\ running /\ main.pc = "panicked"
    /\ running' = FALSE
    /\ UNCHANGED << solar_system, ship_arcs, world_mutex, ship_mutex, next_uuid, conn,
                    server, main, clock, bcast, ticks, msgs >>
    /\ UNCHANGED telemetry

(* ------------------------------------------------------------------ *)
(* The simulation clock thread (main.rs 248-263)                        *)
(* ------------------------------------------------------------------ *)
\* main.rs 252-258 and 72-74: measure delta_time, lock the world, advance the planets
ClockLockAfter(delta_time) ==
    /\ running /\ clock.pc = "sleep"
    /\ ticks < MaxTicks
    /\ IsFree(world_mutex)
    /\ IF world_mutex.poisoned
       THEN /\ clock' = [clock EXCEPT !.pc = "panicked"]
            /\ UNCHANGED << world_mutex, solar_system >>
       ELSE /\ world_mutex' = Locked(world_mutex, ClockThread)
            /\ solar_system' = update_planets(solar_system, delta_time)
            /\ clock' = [pc |-> "ships", delta_time |-> delta_time,
                         todo |-> ships_to_update(solar_system)]
    /\ UNCHANGED << ship_arcs, ship_mutex, next_uuid, conn, server, main, bcast,
                    ticks, msgs, running >>
    /\ UNCHANGED telemetry

\* the tick of a loop that runs on time: 33 ms after the last one
ClockLock == \E delta_time \in DeltaTimes : ClockLockAfter(delta_time)

\* main.rs 76-78: one iteration of `for ship in self.ships.values_mut()`
\* (the iteration order of a HashMap is unspecified)
ClockShip(k) ==
    /\ running /\ clock.pc = "ships"
    /\ k \in clock.todo
    /\ LET ship == solar_system.ships[k]
       IN /\ IsFree(ship_mutex[ship])
          /\ IF ship_mutex[ship].poisoned
             THEN /\ world_mutex' = PoisonedBy(world_mutex)
                  /\ clock' = [clock EXCEPT !.pc = "panicked"]
                  /\ UNCHANGED ship_arcs
             ELSE /\ ship_arcs' = [ship_arcs EXCEPT ![ship] =
                                      TheShip_update(@, clock.delta_time)]
                  /\ clock' = [clock EXCEPT !.todo = @ \ {k}]
                  /\ UNCHANGED world_mutex
    /\ UNCHANGED << solar_system, ship_mutex, next_uuid, conn, server, main, bcast,
                    ticks, msgs, running >>
    /\ UNCHANGED telemetry

\* main.rs 259-261: the guard is dropped; the thread sleeps
ClockUnlock ==
    /\ running /\ clock.pc = "ships"
    /\ clock.todo = {}
    /\ world_mutex' = Unlocked(world_mutex)
    /\ clock' = [pc |-> "sleep", delta_time |-> 0, todo |-> {}]
    /\ ticks' = ticks + 1
    /\ UNCHANGED << solar_system, ship_arcs, ship_mutex, next_uuid, conn, server,
                    main, bcast, msgs, running >>
    /\ UNCHANGED telemetry

(* ------------------------------------------------------------------ *)
(* The broadcast thread of a connection (main.rs 121-150)               *)
(* ------------------------------------------------------------------ *)
\* solar_system_clone.lock().unwrap() on the broadcast thread of c
BcastLockWorld(c, pc) ==
    /\ IsFree(world_mutex)
    /\ IF world_mutex.poisoned
       THEN /\ bcast' = [bcast EXCEPT ![c].pc = "panicked", ![c].loc = NoLocals]
            /\ UNCHANGED world_mutex
       ELSE /\ bcast' = [bcast EXCEPT ![c].pc = pc]
            /\ world_mutex' = Locked(world_mutex, BcastThread(c))

\* main.rs 125
BcastPositionsLock(c) ==
    /\ running /\ bcast[c].pc = "positions_lock"
    /\ BcastLockWorld(c, "positions")
    /\ UNCHANGED << solar_system, ship_arcs, ship_mutex, next_uuid, conn, server,
                    main, clock, ticks, msgs, running >>
    /\ UNCHANGED telemetry

\* main.rs 126-127
BcastPositions(c) ==
    /\ running /\ bcast[c].pc = "positions"
    /\ bcast' = [bcast EXCEPT ![c].pc = "ships_lock",
                              ![c].loc.positions = positions(solar_system),
                              ![c].loc.positions_ticks = ticks]
    /\ world_mutex' = Unlocked(world_mutex)
    /\ UNCHANGED << solar_system, ship_arcs, ship_mutex, next_uuid, conn, server,
                    main, clock, ticks, msgs, running >>
    /\ UNCHANGED telemetry

\* main.rs 130
BcastShipsLock(c) ==
    /\ running /\ bcast[c].pc = "ships_lock"
    /\ BcastLockWorld(c, "ships")
    /\ UNCHANGED << solar_system, ship_arcs, ship_mutex, next_uuid, conn, server,
                    main, clock, ticks, msgs, running >>
    /\ UNCHANGED telemetry

\* main.rs 131-137: every ship of the map is locked, cloned and unlocked in turn,
\* under the world lock (a Vec in the map's unspecified order: held as a set)
BcastShips(c) ==
    /\ running /\ bcast[c].pc = "ships"
    /\ LET arcs == {solar_system.ships[k] : k \in DOMAIN solar_system.ships}
       IN /\ \A a \in arcs : IsFree(ship_mutex[a])
          /\ IF \E a \in arcs : ship_mutex[a].poisoned
             THEN /\ bcast' = [bcast EXCEPT ![c].pc = "panicked", ![c].loc = NoLocals]
                  /\ world_mutex' = PoisonedBy(world_mutex)
             ELSE /\ bcast' = [bcast EXCEPT ![c].pc = "ship_info_lock",
                                            ![c].loc.ships = {ship_arcs[a] : a \in arcs},
                                            ![c].loc.ships_ticks = ticks]
                  /\ world_mutex' = Unlocked(world_mutex)
    /\ UNCHANGED << solar_system, ship_arcs, ship_mutex, next_uuid, conn, server,
                    main, clock, ticks, msgs, running >>
    /\ UNCHANGED telemetry

\* main.rs 139: ship_clone.lock().unwrap(), with no world lock held
BcastShipInfoLock(c) ==
    /\ running /\ bcast[c].pc = "ship_info_lock"
    /\ IsFree(ship_mutex[bcast[c].ship_clone])
    /\ IF ship_mutex[bcast[c].ship_clone].poisoned
       THEN /\ bcast' = [bcast EXCEPT ![c].pc = "panicked", ![c].loc = NoLocals]
            /\ UNCHANGED ship_mutex
       ELSE /\ bcast' = [bcast EXCEPT ![c].pc = "ship_info"]
            /\ ship_mutex' = [ship_mutex EXCEPT ![bcast[c].ship_clone] =
                                 Locked(@, BcastThread(c))]
    /\ UNCHANGED << solar_system, ship_arcs, world_mutex, next_uuid, conn, server,
                    main, clock, ticks, msgs, running >>
    /\ UNCHANGED telemetry

\* mutant of BcastShipInfo: the ship guard lives on after the statement
BcastShipInfo_guard_kept(c) ==
    /\ running /\ bcast[c].pc = "ship_info"
    /\ bcast' = [bcast EXCEPT ![c].pc = "send",
                              ![c].loc.ship_info =
                                  Some(to_json(ship_arcs[bcast[c].ship_clone]))]
    /\ UNCHANGED << solar_system, ship_arcs, world_mutex, ship_mutex, next_uuid, conn,
                    server, main, clock, ticks, msgs, running >>
    /\ UNCHANGED telemetry

\* main.rs 139: to_json(), then the guard is dropped
BcastShipInfo(c) ==
    /\ running /\ bcast[c].pc = "ship_info"
    /\ bcast' = [bcast EXCEPT ![c].pc = "send",
                              ![c].loc.ship_info =
                                  Some(to_json(ship_arcs[bcast[c].ship_clone]))]
    /\ ship_mutex' = [ship_mutex EXCEPT ![bcast[c].ship_clone] = Unlocked(@)]
    /\ UNCHANGED << solar_system, ship_arcs, world_mutex, next_uuid, conn, server,
                    main, clock, ticks, msgs, running >>
    /\ UNCHANGED telemetry

\* mutant of BcastSend: a send that fails ends the process
BcastSend_process_exits(c) ==
    /\ running /\ bcast[c].pc = "send"
    /\ \E sent \in BOOLEAN :
         /\ bcast' = [bcast EXCEPT ![c].pc = IF sent THEN "positions_lock" ELSE "panicked",
                                   ![c].loc = NoLocals]
         /\ running' = sent
    /\ UNCHANGED << solar_system, ship_arcs, world_mutex, ship_mutex, next_uuid, conn,
                    server, main, clock, ticks, msgs >>
    /\ UNCHANGED telemetry

\* main.rs 141-148: the message is assembled and pushed with out.send(..).unwrap()
\* (Sender::send fails when the event loop's queue is full or gone: the unwrap
\* then panics); after a send that succeeded the thread sleeps and loops
BcastSend(c) ==
    /\ running /\ bcast[c].pc = "send"
    /\ \E sent \in BOOLEAN :
         bcast' = [bcast EXCEPT ![c].pc = IF sent THEN "positions_lock" ELSE "panicked",
                                ![c].loc = NoLocals]
    /\ UNCHANGED << solar_system, ship_arcs, world_mutex, ship_mutex, next_uuid, conn,
                    server, main, clock, ticks, msgs, running >>
    /\ UNCHANGED telemetry

(* ------------------------------------------------------------------ *)
(* The telemetry task (main.rs 268-285) and                             *)
(* KafkaProducer::send_planet_positions (kafka_producer.rs 35-68)       *)
(* ------------------------------------------------------------------ *)
\* mutant of batch_timestamp: the clock is read again for every record
timestamp_read_per_record(timestamp) == now

\* kafka_producer.rs 51: the timestamp field of a record is the local captured at 39-42
batch_timestamp(timestamp) == timestamp

\* kafka_producer.rs 45-52
PlanetPosition(name, xy, timestamp) ==
    [ type_object |-> "planet", name |-> name, x |-> xy[1], y |-> xy[2], z |-> 0,
      timestamp |-> batch_timestamp(timestamp) ]

\* kafka_producer.rs 54-62: the record handed to the producer, keyed by the name
FutureRecord(planet_position) ==
    [key |-> planet_position.name, payload |-> planet_position]

\* mutant of on_send_error: the error ends the task
on_send_error_aborts(k) == [k EXCEPT !.pc = "panicked", !.result = "err"]

\* kafka_producer.rs 64 and main.rs 279-283: `?` returns the error out of
\* send_planet_positions (the rest of the batch is dropped), the loop prints it
\* and goes on to its sleep
on_send_error(k) == [k EXCEPT !.pc = "sleep", !.result = "err"]

\* main.rs 272-275: interval.tick() has fired; solar_system_clone.lock().unwrap()
\* (a panic of a spawned task ends that task only)
KafkaLock ==
    /\ running /\ kafka.pc = "interval"
    /\ batches < MaxBatches
    /\ IsFree(world_mutex)
    /\ IF world_mutex.poisoned
       THEN /\ kafka' = [kafka EXCEPT !.pc = "panicked"]
            /\ UNCHANGED world_mutex
       ELSE /\ kafka' = [kafka EXCEPT !.pc = "positions"]
            /\ world_mutex' = Locked(world_mutex, KafkaTask)
    /\ UNCHANGED << solar_system, ship_arcs, ship_mutex, next_uuid, conn, server, main,
                    clock, bcast, ticks, msgs, running, now, batches >>

\* main.rs 276-277: positions(), then the guard is dropped
KafkaPositions ==
    /\ running /\ kafka.pc = "positions"
    /\ kafka' = [kafka EXCEPT !.pc = "timestamp", !.positions = positions(solar_system)]
    /\ world_mutex' = Unlocked(world_mutex)
    /\ UNCHANGED << solar_system, ship_arcs, ship_mutex, next_uuid, conn, server, main,
                    clock, bcast, ticks, msgs, running, now, batches >>

\* kafka_producer.rs 39-42: the timestamp of the batch
KafkaTimestamp ==
    /\ running /\ kafka.pc = "timestamp"
    /\ kafka' = [kafka EXCEPT !.pc = "send", !.timestamp = now]
    /\ UNCHANGED << solar_system, ship_arcs, world_mutex, ship_mutex, next_uuid, conn,
                    server, main, clock, bcast, ticks, msgs, running, now, batches >>

\* kafka_producer.rs 44-65: one iteration of the loop over the positions; the
\* producer delivers the record or reports an error
KafkaSend ==
    /\ running /\ kafka.pc = "send"
    /\ LET i == Len(kafka.records) + 1
           record == FutureRecord(PlanetPosition(kafka.positions[i][1],
                                                 kafka.positions[i][2], kafka.timestamp))
       IN \E delivered \in BOOLEAN :
            IF delivered
            THEN kafka' = [kafka EXCEPT
                              !.records = Append(@, record),
                              !.pc = IF i = Len(kafka.positions) THEN "sleep" ELSE "send",
                              !.result = IF i = Len(kafka.positions) THEN "ok" ELSE @]
            ELSE kafka' = on_send_error(kafka)
    /\ UNCHANGED << solar_system, ship_arcs, world_mutex, ship_mutex, next_uuid, conn,
                    server, main, clock, bcast, ticks, msgs, running, now, batches >>

\* main.rs 283 and 271-272: the sleep ends, the loop starts over
KafkaSleep ==
    /\ running /\ kafka.pc = "sleep"
    /\ kafka' = [KafkaIdle EXCEPT !.result = kafka.result]
    /\ batches' = batches + 1
    /\ UNCHANGED << solar_system, ship_arcs, world_mutex, ship_mutex, next_uuid, conn,
                    server, main, clock, bcast, ticks, msgs, running, now >>

\* a second of wall-clock time passes (observable only through the timestamps,
\* so only while a batch is being sent)
TimePasses ==
    /\ running /\ kafka.pc = "send"
    /\ now < MaxNow
    /\ now' = now + 1
    /\ UNCHANGED << solar_system, ship_arcs, world_mutex, ship_mutex, next_uuid, conn,
                    server, main, clock, bcast, ticks, msgs, running, kafka, batches >>

KafkaNext == KafkaLock \/ KafkaPositions \/ KafkaTimestamp \/ KafkaSend \/ KafkaSleep

(* ------------------------------------------------------------------ *)
(* The program: ws calls on_open once the handshake is done, on_message *)
(* for the frames of an open connection, and on_close once              *)
(* ------------------------------------------------------------------ *)
Deliver(c, text) == conn[c] = "open" /\ OnMessage(c, text)

Close(c) == conn[c] = "open" /\ OnCloseLock(c)

Next ==
    \/ \E c \in Conns : Accept(c)
    \/ \E c \in Conns : OnOpenLock(c)
    \/ OnOpenAdd
    \/ \E c \in Conns, text \in Texts : Deliver(c, text)
    \/ OnMessageEngines
    \/ OnMessageEnginesAssign
    \/ OnMessageRotationLock
    \/ OnMessageRotation
    \/ OnMessageRotationAssign
    \/ \E c \in Conns : Close(c)
    \/ OnCloseRemove
    \/ ProcessExit
    \/ ClockLock
    \/ \E k \in clock.todo : ClockShip(k)
    \/ ClockUnlock
    \/ \E c \in Conns : BcastPositionsLock(c)
    \/ \E c \in Conns : BcastPositions(c)
    \/ \E c \in Conns : BcastShipsLock(c)
    \/ \E c \in Conns : BcastShips(c)
    \/ \E c \in Conns : BcastShipInfoLock(c)
    \/ \E c \in Conns : BcastShipInfo(c)
    \/ \E c \in Conns : BcastSend(c)

Spec == Init /\ [][Next]_vars

\* the steps of each thread, and the steps that finish a handler already entered
ClockNext == ClockLock \/ (\E k \in clock.todo : ClockShip(k)) \/ ClockUnlock

BcastNext(c) ==
    \/ BcastPositionsLock(c) \/ BcastPositions(c)
    \/ BcastShipsLock(c) \/ BcastShips(c)
    \/ BcastShipInfoLock(c) \/ BcastShipInfo(c)
    \/ BcastSend(c)

HandlerNext ==
    \/ OnOpenAdd
    \/ OnMessageEngines \/ OnMessageEnginesAssign
    \/ OnMessageRotationLock \/ OnMessageRotation \/ OnMessageRotationAssign
    \/ OnCloseRemove \/ ProcessExit

\* the same program, every thread that can take a step eventually scheduled
FairSpec ==
    /\ Spec
    /\ WF_vars(ClockNext)
    /\ WF_vars(HandlerNext)
    /\ \A c \in Conns : WF_vars(BcastNext(c))

(* ------------------------------------------------------------------ *)
(* The handlers alone, called in any order the Handler trait allows:    *)
(* a frame or a close may reach a Server before its on_open or after    *)
(* its on_close.  Only the event loop and the clock run.                *)
(* ------------------------------------------------------------------ *)
DeliverAnyTime(c, text) == conn[c] # "none" /\ OnMessage(c, text)

CloseAnyTime(c) == conn[c] # "none" /\ OnCloseLock(c)

NextHandlers ==
    \/ \E c \in Conns : Accept(c)
    \/ \E c \in Conns : OnOpenLock(c)
    \/ OnOpenAdd
    \/ \E c \in Conns, text \in Texts : DeliverAnyTime(c, text)
    \/ OnMessageEngines
    \/ OnMessageEnginesAssign
    \/ OnMessageRotationLock
    \/ OnMessageRotation
    \/ OnMessageRotationAssign
    \/ \E c \in Conns : CloseAnyTime(c)
    \/ OnCloseRemove
    \/ ProcessExit
    \/ ClockLock
    \/ \E k \in clock.todo : ClockShip(k)
    \/ ClockUnlock

SpecHandlers == Init /\ [][NextHandlers]_vars

(* ------------------------------------------------------------------ *)
(* Every kind of thread of the process together: the event loop with    *)
(* one session and its broadcast thread, the clock and the telemetry    *)
(* task                                                                 *)
(* ------------------------------------------------------------------ *)
\* the factory is called for one connection
AcceptOne == Accept(1)

NextSystem ==
    \/ AcceptOne
    \/ \E c \in Conns : OnOpenLock(c)
    \/ OnOpenAdd
    \/ \E c \in Conns, text \in Texts : Deliver(c, text)
    \/ OnMessageEngines
    \/ OnMessageEnginesAssign
    \/ OnMessageRotationLock
    \/ OnMessageRotation
    \/ OnMessageRotationAssign
    \/ \E c \in Conns : Close(c)
    \/ OnCloseRemove
    \/ ProcessExit
    \/ ClockLock
    \/ \E k \in clock.todo : ClockShip(k)
    \/ ClockUnlock
    \/ \E c \in Conns : BcastPositionsLock(c)
    \/ \E c \in Conns : BcastPositions(c)
    \/ \E c \in Conns : BcastShipsLock(c)
    \/ \E c \in Conns : BcastShips(c)
    \/ \E c \in Conns : BcastShipInfoLock(c)
    \/ \E c \in Conns : BcastShipInfo(c)
    \/ \E c \in Conns : BcastSend(c)
    \/ KafkaLock
    \/ KafkaPositions
    \/ KafkaTimestamp
    \/ KafkaSend
    \/ KafkaSleep
    \/ TimePasses

System == Init /\ [][NextSystem]_vars

\* the whole system with every thread scheduled and fair lock acquisition: a thread
\* that can take a lock again and again eventually takes it
FairSystem ==
    /\ System
    /\ SF_vars(ClockNext)
    /\ WF_vars(HandlerNext)
    /\ WF_vars(KafkaNext)
    /\ \A c \in Conns : SF_vars(BcastNext(c))

(* ------------------------------------------------------------------ *)
(* The clock thread alone, its loop held up for any time between two    *)
(* ticks (delta_time is whatever the Instants of main.rs 252-253 give): *)
(* up to 30 s in steps of half a second, the 33 ms of a loop on time,   *)
(* and the time after which Mercury has turned by 2 PI                  *)
(* ------------------------------------------------------------------ *)
MaxStall == 60

StalledDeltaTimes == {500 * k : k \in 0..MaxStall} \cup {33, 14413}

ClockLockStalled == \E delta_time \in StalledDeltaTimes : ClockLockAfter(delta_time)

NextClock ==
    \/ ClockLockStalled
    \/ ClockUnlock

SpecClock == Init /\ [][NextClock]_vars

(* ------------------------------------------------------------------ *)
(* The ticks of one ship: a session is open, commands have left its     *)
(* ship with any combination of control flags, and the clock runs       *)
(* ------------------------------------------------------------------ *)
FlagSets(fields) == [{fields[i] : i \in 1..Len(fields)} -> BOOLEAN]

\* the ship of a session after valid commands that set the flags e and r
ShipWithFlags(uuid, e, r) ==
    [TheShip_new(uuid) EXCEPT
        !.engines = [f \in DOMAIN @ |-> IF f = "power" THEN @[f] ELSE e[f]],
        !.rotation_engines = [f \in DOMAIN @ |-> IF f = "power" THEN @[f] ELSE r[f]]]

InitShip ==
    /\ solar_system = add_ship_at(SolarSystem_new, 2, 2)
    /\ \E e \in FlagSets(EngineFields), r \in FlagSets(RotationFields) :
           ship_arcs = (2 :> ShipWithFlags(2, e, r))
    /\ world_mutex = NewMutex
    /\ ship_mutex = (2 :> NewMutex)
    /\ next_uuid = 3
    /\ conn = [c \in Conns |-> IF c = 1 THEN "open" ELSE "none"]
    /\ server = [c \in Conns |-> [ship_uuid |-> IF c = 1 THEN 2 ELSE 0]]
    /\ main = [pc |-> "idle", c |-> 0, text |-> "", ship |-> 0, n |-> 0]
    /\ clock = [pc |-> "sleep", delta_time |-> 0, todo |-> {}]
    /\ bcast = [c \in Conns |->
                  IF c = 1 THEN [pc |-> "positions_lock", ship_clone |-> 2, loc |-> NoLocals]
                  ELSE [pc |-> "none", ship_clone |-> 0, loc |-> NoLocals]]
    /\ ticks = 0
    /\ msgs = MaxMsgs
    /\ running = TRUE
    /\ kafka = KafkaIdle
    /\ now = 0
    /\ batches = 0

\* a tick 33 ms or a whole second after the last one
ShipDeltaTimes == DeltaTimes \cup {1000}

ClockLockShip == \E delta_time \in ShipDeltaTimes : ClockLockAfter(delta_time)

NextShip ==
    \/ ClockLockShip
    \/ \E k \in clock.todo : ClockShip(k)
    \/ ClockUnlock

SpecShip == InitShip /\ [][NextShip]_vars

(* ------------------------------------------------------------------ *)
(* Session lifecycle                                                    *)
(* ------------------------------------------------------------------ *)
OpenSessions == {c \in Conns : conn[c] = "open"}

\* C1: in every reachable state the number of ship entries of the world's ship map
\* equals the number of open sessions (so it is never above it, and never negative).
C1_ShipCountIsOpenSessions ==
    Cardinality(DOMAIN solar_system.ships) = Cardinality(OpenSessions)

\* C1 witness: two sessions were opened, one has closed again, a tick has run and
\* a command has been handled.
C1_Witness ==
    /\ Cardinality(OpenSessions) = 1
    /\ \E c \in Conns : conn[c] = "closed"
    /\ ticks > 0 /\ msgs > 0 /\ main.pc = "idle"

\* C7: no two open sessions hold the same ship id, every open session's ship id is
\* a key of the ship map, and the entry under each key is the ship of that id (no
\* connect overwrote another's entry).
C7_DistinctShipIds ==
    /\ \A c, d \in OpenSessions : c # d => server[c].ship_uuid # server[d].ship_uuid
    /\ \A c \in OpenSessions : server[c].ship_uuid \in DOMAIN solar_system.ships
    /\ \A k \in DOMAIN solar_system.ships : ship_arcs[solar_system.ships[k]].uuid = k
    /\ Cardinality(DOMAIN solar_system.ships) >= Cardinality(OpenSessions)

\* C7 witness: every connection slot is open at once.
C7_Witness ==
    /\ OpenSessions = Conns
    /\ Cardinality(DOMAIN solar_system.ships) = MaxConns
    /\ main.pc = "idle"

(* ------------------------------------------------------------------ *)
(* Inbound commands                                                     *)
(* ------------------------------------------------------------------ *)
EngineFlags(s) ==
    [f \in {"front", "back", "left", "right", "up", "down"} |-> s.engines[f]]

RotationFlags(s) ==
    [f \in {"left", "right", "up", "down"} |-> s.rotation_engines[f]]

\* everything of a ship that is no control-surface flag
Physical(s) ==
    << s.uuid, s.position, s.speed, s.direction, s.angle, s.pitch, s.engines.power,
       s.rotation_engines.power >>

\* the sub-object under `key` of the frame's data, as the protocol defines it
Group(text, key) ==
    LET r == from_str(text)
        d == IF r.some THEN get(r.val, "data") ELSE None
    IN IF d.some THEN get(d.val, key) ELSE None

\* a present sub-object has every required field, each a boolean
GroupWellFormed(g, fields) ==
    g.some =>
        \A i \in 1..Len(fields) :
            LET v == get(g.val, fields[i])
            IN v.some /\ v.val.t = "bool"

Malformed(text) ==
    \/ ~GroupWellFormed(Group(text, "engines"), EngineFields)
    \/ ~GroupWellFormed(Group(text, "rotation"), RotationFields)

\* not JSON, no top-level data key, or neither engines nor rotation under data
Ignorable(text) == ~Group(text, "engines").some /\ ~Group(text, "rotation").some

\* the event loop is inside on_message, past the frame's parse
InMessageBlock ==
    main.pc \in {"engines", "engines_assign", "rotation_lock", "rotation", "rotation_assign"}

AllFlagsKept ==
    \A a \in DOMAIN ship_arcs :
        /\ EngineFlags(ship_arcs'[a]) = EngineFlags(ship_arcs[a])
        /\ RotationFlags(ship_arcs'[a]) = RotationFlags(ship_arcs[a])

\* C2: a command whose present sub-object lacks a required field or holds a
\* non-boolean is rejected with no mutation: no step of its handling changes any
\* engine flag or rotation-engine flag.
C2_MalformedRejected ==
    [][(InMessageBlock /\ Malformed(main.text)) => AllFlagsKept]_vars

\* C3: a malformed command handled by on_message terminates nothing: the process
\* runs on, the event loop has not died, and the world lock can still be taken.
C3_FailureContained ==
    Malformed(main.text) =>
        (running /\ main.pc # "panicked" /\ ~world_mutex.poisoned)

\* C4: an engines or rotation command handled while the session's ship id has no
\* entry in the ship map is a silent no-op: the handler returns normally, and no
\* ship, no body and no lock state changes.
C4_AbsentShipNoOp ==
    [][(/\ main.pc \in {"engines", "rotation"}
        /\ server[main.c].ship_uuid \notin DOMAIN solar_system.ships)
       => (/\ main'.pc # "panicked"
           /\ ~world_mutex'.poisoned
           /\ ship_arcs' = ship_arcs
           /\ solar_system' = solar_system)]_vars

\* C5: the message a broadcast thread is about to push is one point-in-time
\* snapshot: its planets and its ships were read after the same number of
\* completed ticks, and its own-ship view equals the entry of the same id in its
\* ships list.
C5_SnapshotPointInTime ==
    \A c \in Conns :
        bcast[c].pc = "send" =>
            /\ bcast[c].loc.positions_ticks = bcast[c].loc.ships_ticks
            /\ \A s \in bcast[c].loc.ships :
                   s.uuid = bcast[c].loc.ship_info.val.uuid
                       => to_json(s) = bcast[c].loc.ship_info.val

\* the broadcast thread of c has ended (the loop has no exit but a panic; the
\* exit of the process ends every thread)
BcastTerminated(c) == ~running \/ bcast[c].pc = "panicked"

\* C6: once a connection has closed, its broadcast loop eventually terminates (and,
\* terminated, pushes nothing more): no broadcast thread of a closed session runs
\* forever.
C6_BroadcastTerminates ==
    \A c \in Conns : (conn[c] = "closed") ~> BcastTerminated(c)

\* C8: remove_ship, as on_close calls it, is total and idempotent: the handler
\* returns normally; the id's entry is gone afterwards and every other entry is as
\* before (so removing an absent id changes nothing); no body and no ship changes.
C8_RemoveShipTotal ==
    [][(main.pc = "on_close" /\ main'.pc # "on_close") =>
        LET uuid == server[main.c].ship_uuid
        IN /\ main'.pc = "idle"
           /\ ~world_mutex'.poisoned
           /\ solar_system'.planets = solar_system.planets
           /\ ship_arcs' = ship_arcs
           /\ DOMAIN solar_system'.ships = DOMAIN solar_system.ships \ {uuid}
           /\ \A k \in DOMAIN solar_system'.ships :
                  solar_system'.ships[k] = solar_system.ships[k]]_vars

\* C8 witness: on_close has returned for a session whose ship was never inserted
\* (its id was absent from the map), while another session's ship is in the map.
C8_Witness ==
    /\ main.pc = "idle"
    /\ \E c \in Conns : conn[c] = "closed" /\ bcast[c].pc = "none"
    /\ \E c \in OpenSessions : server[c].ship_uuid \in DOMAIN solar_system.ships

\* C9: the handling of an inbound command changes nothing but control-surface
\* flags of the sender's ship: every ship keeps position, velocity, heading, yaw,
\* pitch and powers; every other ship, the bodies and the ship map are unchanged.
C9_CommandFrame ==
    [][((InMessageBlock /\ main' # main) \/ msgs' # msgs) =>
        LET target == IF main.pc = "idle" THEN 0 ELSE server[main.c].ship_uuid
        IN /\ solar_system' = solar_system
           /\ DOMAIN ship_arcs' = DOMAIN ship_arcs
           /\ \A a \in DOMAIN ship_arcs :
                  /\ Physical(ship_arcs'[a]) = Physical(ship_arcs[a])
                  /\ a # target => ship_arcs'[a] = ship_arcs[a]]_vars

\* C9 witness: with two ships in the map and a tick done, a command has set the
\* flags of one ship and not of the other.
C9_Witness ==
    /\ main.pc = "idle" /\ ticks > 0
    /\ \E a, b \in DOMAIN solar_system.ships :
           /\ a # b
           /\ ship_arcs[a].engines.front
           /\ ~ship_arcs[b].engines.front

\* C10: a frame that is not JSON, has no top-level data key, or has neither key
\* under data is ignored (nothing but the frame count changes, the handler returns
\* normally, the connection stays open); a frame with only one of the two keys
\* changes no flag of the other group.
C10_UnknownShapeIgnored ==
    [][/\ msgs' # msgs =>
              \A c \in Conns, text \in Texts :
                  (Ignorable(text) /\ Deliver(c, text)) =>
                      /\ main' = main /\ main.pc = "idle"
                      /\ UNCHANGED << solar_system, ship_arcs, world_mutex, ship_mutex,
                                      conn, server, clock, bcast, running >>
       /\ (InMessageBlock /\ ~Group(main.text, "rotation").some) =>
              \A a \in DOMAIN ship_arcs :
                  RotationFlags(ship_arcs'[a]) = RotationFlags(ship_arcs[a])
       /\ (InMessageBlock /\ ~Group(main.text, "engines").some) =>
              \A a \in DOMAIN ship_arcs :
                  EngineFlags(ship_arcs'[a]) = EngineFlags(ship_arcs[a])]_vars

\* C10 witness: the one frame handled was ignored: the event loop is idle again,
\* the sender's flags are all as created, nothing is poisoned.
C10_Witness ==
    /\ msgs > 0 /\ main.pc = "idle" /\ running /\ ~world_mutex.poisoned
    /\ OpenSessions # {}
    /\ \A a \in DOMAIN ship_arcs :
           /\ EngineFlags(ship_arcs[a]) = EngineFlags(TheShip_new(a))
           /\ RotationFlags(ship_arcs[a]) = RotationFlags(TheShip_new(a))

(* ------------------------------------------------------------------ *)
(* Telemetry                                                            *)
(* ------------------------------------------------------------------ *)
\* a step of send_planet_positions in which the producer reported an error
FailedSend == kafka.pc = "send" /\ kafka' # kafka /\ kafka'.records = kafka.records

\* C11: a publish failure never aborts the telemetry loop and is never retried:
\* the failing call returns to the loop, which goes on to its sleep; from there the
\* only step of the task is the start of the next iteration, with nothing kept of
\* the failed batch; every iteration sends from the snapshot it has just taken, and
\* the record published by a step is the one after those already published.
C11_PublishFailureNotRetried ==
    [][/\ FailedSend => (kafka'.pc = "sleep" /\ kafka'.result = "err")
       /\ (kafka.pc = "sleep" /\ kafka' # kafka) =>
              /\ kafka'.pc = "interval"
              /\ kafka'.records = << >> /\ kafka'.positions = << >>
       /\ (kafka.pc = "positions" /\ kafka' # kafka) =>
              /\ kafka'.positions = positions(solar_system)
              /\ kafka'.records = << >>
       /\ kafka'.records # kafka.records /\ kafka'.records # << >> =>
              /\ kafka.pc = "send"
              /\ Len(kafka'.records) = Len(kafka.records) + 1
              /\ SubSeq(kafka'.records, 1, Len(kafka.records)) = kafka.records
              /\ kafka'.records[Len(kafka'.records)].key
                     = kafka.positions[Len(kafka'.records)][1]
              /\ kafka'.positions = kafka.positions]_vars

\* C11 witness: the last batch failed, and the next iteration is publishing the
\* records of its own snapshot, taken after a tick.
C11_Witness ==
    /\ kafka.result = "err" /\ batches = 1
    /\ kafka.pc = "send" /\ Len(kafka.records) > 0
    /\ ticks > 0

\* C12: the records of one telemetry batch all carry the same timestamp, the one
\* captured when the batch began; the i-th record is the one of the i-th body in
\* creation order, keyed by that body's name, with the snapshot's coordinates; a
\* batch that returned Ok has published one record per body.
C12_BatchTimestamp ==
    /\ \A i, j \in 1..Len(kafka.records) :
           kafka.records[i].payload.timestamp = kafka.records[j].payload.timestamp
    /\ \A i \in 1..Len(kafka.records) :
           /\ kafka.records[i].payload.timestamp = kafka.timestamp
           /\ kafka.records[i].key = SolarSystem_new.planets[i].name
           /\ kafka.records[i].payload.name = kafka.records[i].key
           /\ << kafka.records[i].payload.x, kafka.records[i].payload.y >>
                  = kafka.positions[i][2]
    /\ Len(kafka.records) <= Len(solar_system.planets)
    /\ (kafka.pc = "sleep" /\ kafka.result = "ok") =>
           Len(kafka.records) = Len(solar_system.planets)

\* C12 witness: a whole batch was published while the wall clock moved on.
C12_Witness ==
    /\ kafka.pc = "sleep" /\ kafka.result = "ok"
    /\ Len(kafka.records) = 5
    /\ now > kafka.timestamp

(* ------------------------------------------------------------------ *)
(* Bodies                                                               *)
(* ------------------------------------------------------------------ *)
\* C13: in every reachable state the angle of every body is in [0, 2 PI).
C13_AngleInRange ==
    \A i \in 1..Len(solar_system.planets) :
        /\ 0 <= solar_system.planets[i].angle
        /\ solar_system.planets[i].angle < 2 * PI

(* ------------------------------------------------------------------ *)
(* Ticks and commands                                                   *)
(* ------------------------------------------------------------------ *)
\* the clock thread is inside SolarSystem::update
TickInProgress == clock.pc = "ships"

ControlFlags(s) == << EngineFlags(s), RotationFlags(s) >>

\* C14: a tick is atomic with respect to connect, disconnect and commands: it
\* starts on the ships that are in the map; while it runs no entry is added to or
\* removed from the map and no control flag of any ship is written; a ship changes
\* only by its one update of this tick, called with the tick's delta_time; and the
\* tick ends only when every ship it started on has been updated.
C14_TickAtomic ==
    [][/\ (clock.pc = "sleep" /\ clock'.pc = "ships") =>
              clock'.todo = DOMAIN solar_system.ships
       /\ TickInProgress =>
              /\ solar_system'.ships = solar_system.ships
              /\ DOMAIN ship_arcs' = DOMAIN ship_arcs
              /\ \A a \in DOMAIN ship_arcs :
                     ControlFlags(ship_arcs'[a]) = ControlFlags(ship_arcs[a])
              /\ clock'.pc \in {"ships", "sleep"}
              /\ clock'.pc = "ships" =>
                     /\ clock'.delta_time = clock.delta_time
                     /\ clock'.todo \subseteq clock.todo
              /\ clock'.pc = "sleep" => clock.todo = {}
              /\ \A k \in DOMAIN solar_system.ships :
                     LET a == solar_system.ships[k]
                     IN IF k \in clock.todo /\ k \notin clock'.todo
                        THEN ship_arcs'[a] = TheShip_update(ship_arcs[a], clock.delta_time)
                        ELSE ship_arcs'[a] = ship_arcs[a]]_vars

\* C14 witness: a tick is under way on two ships, one of them already updated,
\* while a command and a broadcast thread wait for the world lock.
C14_Witness ==
    /\ TickInProgress
    /\ Cardinality(DOMAIN solar_system.ships) = 2
    /\ Cardinality(clock.todo) = 1
    /\ main.pc = "idle" /\ msgs = 0
    /\ \E c \in Conns : bcast[c].pc = "ships_lock"

\* on_message has done some, not all, of the assignments of a well-formed
\* sub-object
PartlyAssigned ==
    /\ main.pc \in {"engines_assign", "rotation_assign"}
    /\ main.n > 0
    /\ ~Malformed(main.text)

\* C16: a valid command overwrites its sub-object atomically: while some of its
\* assignments are done and others are not, no tick updates a ship and no broadcast
\* thread reads the ships of the map or the view of the target ship.
C16_SubObjectAtomic ==
    [][PartlyAssigned =>
          /\ clock' = clock
          /\ \A c \in Conns :
                 /\ ~BcastShips(c)
                 /\ bcast[c].ship_clone = main.ship => ~BcastShipInfo(c)]_vars

\* C16 witness: the engines block has set front and not yet down, while the
\* target's broadcast thread waits for the ship lock and another one for the world
\* lock.
C16_Witness ==
    /\ main.pc = "engines_assign" /\ main.n = 1
    /\ ship_arcs[main.ship].engines.front /\ ~ship_arcs[main.ship].engines.down
    /\ \E c \in Conns : bcast[c].ship_clone = main.ship /\ bcast[c].pc = "ship_info_lock"
    /\ \E c \in Conns : bcast[c].ship_clone # main.ship /\ bcast[c].pc = "ships_lock"

(* ------------------------------------------------------------------ *)
(* Locks                                                                *)
(* ------------------------------------------------------------------ *)
Threads == {MainThread, ClockThread, KafkaTask} \cup {BcastThread(c) : c \in Conns}

World == <<"world">>
ShipLock(a) == <<"ship", a>>
Mutexes == {World} \cup {ShipLock(a) : a \in DOMAIN ship_mutex}

Owner(m) == IF m = World THEN world_mutex.owner ELSE ship_mutex[m[2]].owner

\* the mutexes of which thread t holds a guard
Holds(t) == {m \in Mutexes : Owner(m) = t}

ShipLocksOfMap == {ShipLock(solar_system.ships[k]) : k \in DOMAIN solar_system.ships}

\* the mutexes whose lock() thread t is calling, or calls next, where it stands
Requests(t) ==
    IF ~running THEN {}
    ELSE IF t = MainThread
    THEN CASE main.pc = "rotation_lock" -> {World}
           [] main.pc = "on_open" -> {ShipLock(main.ship)}
           [] main.pc \in {"engines", "rotation"} ->
                  {ShipLock(solar_system.ships[k]) :
                      k \in {server[main.c].ship_uuid} \cap DOMAIN solar_system.ships}
           [] OTHER -> {}
    ELSE IF t = ClockThread
    THEN CASE clock.pc = "sleep" -> {World}
           [] clock.pc = "ships" -> {ShipLock(solar_system.ships[k]) : k \in clock.todo}
           [] OTHER -> {}
    ELSE IF t = KafkaTask
    THEN (IF kafka.pc = "interval" THEN {World} ELSE {})
    ELSE LET c == t[2]
         IN CASE bcast[c].pc \in {"positions_lock", "ships_lock"} -> {World}
              [] bcast[c].pc = "ships" -> ShipLocksOfMap
              [] bcast[c].pc = "ship_info_lock" -> {ShipLock(bcast[c].ship_clone)}
              [] OTHER -> {}

\* the threads that hold a mutex t is asking for
WaitsFor(t) == {Owner(m) : m \in Requests(t)} \ {NoOwner}

\* the threads of D wait for one another: none of them can ever go on
Deadlocked(D) == D # {} /\ \A t \in D : WaitsFor(t) \cap D # {}

\* the thread has ended
Ended(t) ==
    \/ ~running
    \/ t = MainThread /\ main.pc = "panicked"
    \/ t = ClockThread /\ clock.pc = "panicked"
    \/ t = KafkaTask /\ kafka.pc = "panicked"
    \/ \E c \in Conns : t = BcastThread(c) /\ bcast[c].pc \in {"none", "panicked"}

\* C15: a broadcast thread at its send, and the telemetry task at its sends, holds
\* no guard of the world mutex and of no ship mutex.
C15_NoLockAcrossSend ==
    /\ \A c \in Conns : bcast[c].pc = "send" => Holds(BcastThread(c)) = {}
    /\ kafka.pc \in {"timestamp", "send"} => Holds(KafkaTask) = {}

\* C15 witness: a broadcast thread and the telemetry task are both at a send while
\* the clock holds the world lock and runs a tick.
C15_Witness ==
    /\ \E c \in Conns : bcast[c].pc = "send"
    /\ kafka.pc = "send" /\ Len(kafka.records) > 0
    /\ world_mutex.owner = ClockThread

\* C19: no thread asks for the world lock while it holds a ship lock; a thread that
\* has ended holds no lock; and no set of threads wait for one another (no
\* deadlock).
C19_LockOrder ==
    /\ \A t \in Threads :
           World \in Requests(t) => Holds(t) = {}
    /\ \A t \in Threads : running /\ Ended(t) => Holds(t) = {}
    /\ \A D \in SUBSET Threads : ~Deadlocked(D)

\* C19 witness: the handler of a command holds the world lock and waits for the
\* ship lock, which the broadcast thread holds alone; the clock and the telemetry
\* task wait for the world lock.
C19_Witness ==
    /\ main.pc = "engines"
    /\ WaitsFor(MainThread) = {BcastThread(main.c)}
    /\ Holds(MainThread) = {World}
    /\ WaitsFor(ClockThread) = {MainThread}
    /\ WaitsFor(KafkaTask) = {MainThread}

\* C20: a send that fails in a broadcast thread ends that thread and nothing else:
\* the thread holds no lock, no mutex changes or is poisoned, the world, the event
\* loop, the clock, the telemetry task and every other broadcast thread are as
\* before, and the process runs on.
C20_SendFailureLocal ==
    [][\A c \in Conns :
          (bcast[c].pc = "send" /\ bcast'[c].pc = "panicked") =>
              /\ Holds(BcastThread(c)) = {}
              /\ world_mutex' = world_mutex /\ ship_mutex' = ship_mutex
              /\ solar_system' = solar_system /\ ship_arcs' = ship_arcs
              /\ main' = main /\ conn' = conn /\ server' = server
              /\ clock' = clock /\ kafka' = kafka
              /\ \A d \in Conns \ {c} : bcast'[d] = bcast[d]
              /\ running' = running]_vars

\* C20 witness: the broadcast thread of one session has ended on a failed send;
\* after that a tick has been completed and the other session's thread is at a send.
C20_Witness ==
    /\ running /\ ~world_mutex.poisoned
    /\ \E c, d \in Conns :
           /\ bcast[c].pc = "panicked"
           /\ bcast[d].pc = "send"
           /\ bcast[d].loc.positions_ticks > 0
    /\ ticks > 0

(* ------------------------------------------------------------------ *)
(* Ship update                                                          *)
(* ------------------------------------------------------------------ *)
NoThruster(s) == \A f \in DOMAIN EngineFlags(s) : ~EngineFlags(s)[f]
NoRotation(s) == \A f \in DOMAIN RotationFlags(s) : ~RotationFlags(s)[f]

\* the unit heading of yaw `angle` and pitch `pitch`
Heading(angle, pitch) ==
    normalized(<< fmul(fcos(angle), fcos(pitch)), fsin(pitch),
                  fmul(fsin(angle), fcos(pitch)) >>)

\* s is the ship before and u the ship after one update(delta_time)
UpdatedInOrder(s, u, delta_time) ==
    \* rotate has run: the heading is the one of the new yaw and pitch
    /\ u.direction = Heading(u.angle, u.pitch)
    /\ NoRotation(s) => (u.angle = s.angle /\ u.pitch = s.pitch)
    /\ (s.rotation_engines.left /\ ~s.rotation_engines.right) =>
           u.angle = s.angle + fmul(delta_time, s.rotation_engines.power)
    \* accelerate has run after it: the thrust is along the new heading
    /\ u.speed = accelerate([s EXCEPT !.direction = u.direction, !.angle = u.angle,
                                      !.pitch = u.pitch], delta_time).speed
    /\ NoThruster(s) => u.speed = s.speed
    /\ (s.engines.front /\ \A f \in {"back", "left", "right", "up", "down"} :
                               ~s.engines[f]) =>
           u.speed = [i \in 1..3 |->
                         s.speed[i] - fmul(fmul(u.direction[i], delta_time), s.engines.power)]
    \* the position moves last, by the new speed
    /\ u.position = [i \in 1..3 |-> s.position[i] + fmul(u.speed[i], delta_time)]
    \* nothing else changes
    /\ u.uuid = s.uuid /\ u.engines = s.engines /\ u.rotation_engines = s.rotation_engines

\* C18: every update of a ship by a tick does its three steps in the order rotate,
\* accelerate, position: the thrust uses the heading the same update has just
\* recomputed, the position moves by delta_time times the speed the same update
\* has just produced; without a thruster flag the speed is unchanged, without a
\* rotation flag yaw and pitch are unchanged.
C18_UpdateOrder ==
    [][\A k \in clock.todo \ clock'.todo :
          LET a == solar_system.ships[k]
          IN UpdatedInOrder(ship_arcs[a], ship_arcs'[a], clock.delta_time)]_vars

\* C18 witness: a ship that turns left with its front thruster on has been updated
\* by a tick: it has a speed, has moved, and its yaw is no longer the one it was
\* created with.
C18_Witness ==
    /\ ticks > 0 /\ clock.pc = "sleep"
    /\ \E a \in DOMAIN ship_arcs :
           /\ ship_arcs[a].engines.front /\ ship_arcs[a].rotation_engines.left
           /\ ~ship_arcs[a].rotation_engines.right
           /\ ship_arcs[a].speed # <<0, 0, 0>>
           /\ ship_arcs[a].position # TheShip_new(a).position
           /\ ship_arcs[a].angle # TheShip_new(a).angle

(* ------------------------------------------------------------------ *)
(* Progress of the clock                                                *)
(* ------------------------------------------------------------------ *)
\* C17: with sessions broadcasting and sending commands and the telemetry task
\* running, under fair lock acquisition, the clock always eventually takes the
\* world lock and completes another tick.
C17_ClockTicksAgain ==
    \A n \in 0..(MaxTicks - 1) : (ticks = n) ~> (ticks > n)

\* the clock completes another tick unless a panic has poisoned the world lock or
\* ended the process
ClockTicksUnlessPanic ==
    \A n \in 0..(MaxTicks - 1) :
        (ticks = n) ~> (ticks > n \/ world_mutex.poisoned \/ ~running)

====
